---- MODULE Spec2Model ----
(***************************************************************************)
(* Drom parser: the JSON-backed progress store (drom_parser/state.py) and  *)
(* the three resumable stages (stage1.py, stage2.py, stage3.py) driven by  *)
(* the command line (cli.py).                                              *)
(*                                                                         *)
(* A process is one run of cli.main.  It can be terminated between any two *)
(* statements; what survives a termination are the files: state.json,     *)
(* state.tmp and the three spreadsheets.                                   *)
(***************************************************************************)
EXTENDS Naturals, Sequences, FiniteSets, TLC

\* ------------------------------------------------------------------ bounds
\* Process terminations in one behaviour.
MaxCrashes == 1
\* Transient failures (a fetch or a save that raises) in one behaviour.
MaxFailures == 1
\* Largest cursor value passed to the store by a direct caller (SpecStore).
MaxIndex == 1
\* Most rows of a table file found at start (SpecLoad).
MaxRows == 2

\* ------------------------------------------------------- state.py: values
STAGE1_STATE_KEY == "stage1"
STAGE2_STATE_KEY == "stage2"
STAGE3_STATE_KEY == "stage3"
Stages == {STAGE1_STATE_KEY, STAGE2_STATE_KEY, STAGE3_STATE_KEY}

\* {} : the empty dict.
EmptyDict == [k \in {} |-> 0]

\* The threads that may call the StateManager.  "main" is the thread that
\* runs cli.main; "aux" is a second caller of the same StateManager.
MainThread == "main"
Threads == {MainThread, "aux"}

\* A file of the data directory: it does not exist, holds a complete JSON
\* document, or holds an incomplete prefix of one (opened for writing and
\* truncated, or written in part).
AbsentFile == [kind |-> "absent", doc |-> EmptyDict]
PartialFile == [kind |-> "partial", doc |-> EmptyDict]

\* json.dump(self._data, fh): dicts with string keys and int values.
JsonDump(d) == [kind |-> "json", doc |-> d]

\* StateManager._load: no file -> the store stays {}; json.load raises on an
\* incomplete document -> the store is {}.
LoadState(f) == IF f.kind = "json" THEN f.doc ELSE EmptyDict

\* dict.get(stage, {}) then dict(...): a copy of the stage's cursor.
GetStageState(d, stage) == IF stage \in DOMAIN d THEN d[stage] ELSE EmptyDict

\* int(state.get(name, 0))
CursorField(c, name) == IF name \in DOMAIN c THEN c[name] ELSE 0

\* A faulty MergeStage: the stage's cursor is replaced by the updates.
MergeStageReplace(d, stage, updates) ==
    [s \in (DOMAIN d) \cup {stage} |-> IF s = stage THEN updates ELSE d[s]]

\* stage_state = self._data.setdefault(stage, {}); stage_state.update(updates)
MergeStage(d, stage, updates) ==
    [s \in (DOMAIN d) \cup {stage} |->
        IF s = stage THEN updates @@ GetStageState(d, stage) ELSE d[s]]

\* A faulty reset_stage: the whole store is emptied.
DeleteEveryStage(d, stage) == EmptyDict

\* del self._data[stage]
DeleteStage(d, stage) == [s \in (DOMAIN d) \ {stage} |-> d[s]]

\* A faulty get_stage_state: self._data.get(stage, {}) is returned as it is,
\* the store's own dict when the stage is present.
SharedWithoutCopy(d, stage) == stage \in DOMAIN d

\* get_stage_state wraps the dict in dict(...): what it returns is a new
\* dict, never the store's own.
Shared(d, stage) == FALSE

VARIABLES
    data,        \* StateManager._data of the running process
    stateFile,   \* state.json
    tmpFile,     \* state.tmp
    lock,        \* StateManager._lock: "free" or the thread holding it
    tpc,         \* per thread: its place inside a StateManager call
    lastCall,    \* history: the latest update/reset call that took the lock
    running,     \* a process (one StateManager) exists
    crashes,     \* history: process terminations so far
    got          \* the dict the latest get_stage_state call of a direct
                 \* caller returned, as the caller has it now

storeVars == <<data, stateFile, tmpFile, lock, tpc, lastCall, running, crashes, got>>

IdleThreads == [t \in Threads |-> "idle"]
NoCall == [op |-> "none", stage |-> "", updates |-> EmptyDict,
           pre |-> EmptyDict, post |-> EmptyDict, thread |-> ""]

\* No dict was returned.  stage: the stage asked for; cursor: the content of
\* the returned dict; shared: the returned dict is the store's own dict of
\* the stage; n: how often the caller has written to it.
NoGot == [stage |-> "", cursor |-> EmptyDict, shared |-> FALSE, n |-> 0]

StoreInit ==
    /\ data = EmptyDict
    /\ stateFile = AbsentFile
    /\ tmpFile = AbsentFile
    /\ lock = "free"
    /\ tpc = IdleThreads
    /\ lastCall = NoCall
    /\ running = FALSE
    /\ crashes = 0
    /\ got = NoGot

\* StateManager.__init__: self._data = {}; self._load()
NewStateManager ==
    /\ data' = LoadState(stateFile)
    /\ lock' = "free"
    /\ tpc' = IdleThreads
    /\ running' = TRUE
    /\ got' = NoGot

\* A faulty update_stage_state that does not take the lock.
UpdateStageStateUnlocked(t, stage, updates) ==
    /\ running
    /\ tpc[t] = "idle"
    /\ lock' = t
    /\ data' = MergeStage(data, stage, updates)
    /\ tpc' = [tpc EXCEPT ![t] = "flush_open"]
    /\ lastCall' = [op |-> "update", stage |-> stage, updates |-> updates,
                    pre |-> data, post |-> data', thread |-> t]
    /\ UNCHANGED <<stateFile, tmpFile, running, crashes, got>>

\* update_stage_state, lines 47-49: take the lock, merge the updates into the
\* stage's cursor.  _flush follows under the same lock.
UpdateStageState(t, stage, updates) ==
    /\ running
    /\ tpc[t] = "idle"
    /\ lock = "free"
    /\ lock' = t
    /\ data' = MergeStage(data, stage, updates)
    /\ tpc' = [tpc EXCEPT ![t] = "flush_open"]
    /\ lastCall' = [op |-> "update", stage |-> stage, updates |-> updates,
                    pre |-> data, post |-> data', thread |-> t]
    /\ UNCHANGED <<stateFile, tmpFile, running, crashes, got>>

\* reset_stage: take the lock; a stage that is present is deleted and the
\* store flushed; otherwise the lock is released at once.
ResetStage(t, stage) ==
    /\ running
    /\ tpc[t] = "idle"
    /\ lock = "free"
    /\ IF stage \in DOMAIN data
       THEN /\ lock' = t
            /\ data' = DeleteStage(data, stage)
            /\ tpc' = [tpc EXCEPT ![t] = "flush_open"]
       ELSE UNCHANGED <<lock, data, tpc>>
    /\ lastCall' = [op |-> "reset", stage |-> stage, updates |-> EmptyDict,
                    pre |-> data, post |-> data', thread |-> t]
    /\ UNCHANGED <<stateFile, tmpFile, running, crashes, got>>

\* A faulty OpenForWrite: _flush opens state.json itself for writing.
OpenForWriteInPlace(t) ==
    /\ tpc[t] = "flush_open"
    /\ stateFile' = PartialFile
    /\ tpc' = [tpc EXCEPT ![t] = "flush_dump"]
    /\ UNCHANGED <<data, tmpFile, lock, lastCall, running, crashes, got>>

\* _flush, lines 36-38: tmp_path.open("w") creates or truncates state.tmp.
OpenForWrite(t) ==
    /\ tpc[t] = "flush_open"
    /\ tmpFile' = PartialFile
    /\ tpc' = [tpc EXCEPT ![t] = "flush_dump"]
    /\ UNCHANGED <<data, stateFile, lock, lastCall, running, crashes, got>>

\* _flush, line 39: json.dump writes the whole store; the file is closed.
DumpJson(t) ==
    /\ tpc[t] = "flush_dump"
    /\ tmpFile' = JsonDump(data)
    /\ tpc' = [tpc EXCEPT ![t] = "flush_replace"]
    /\ UNCHANGED <<data, stateFile, lock, lastCall, running, crashes, got>>

\* _flush, line 40: tmp_path.replace(self.path); the with-block of the
\* caller ends and releases the lock.
ReplaceFile(t) ==
    /\ tpc[t] = "flush_replace"
    /\ stateFile' = tmpFile
    /\ tmpFile' = AbsentFile
    /\ lock' = "free"
    /\ tpc' = [tpc EXCEPT ![t] = "idle"]
    /\ UNCHANGED <<data, lastCall, running, crashes, got>>

Flush(t) == OpenForWrite(t) \/ DumpJson(t) \/ ReplaceFile(t)

\* get_stage_state(stage), called by any thread at any time (it takes no
\* lock).
GetStageStateCall(stage) ==
    /\ running
    /\ got' = [stage |-> stage, cursor |-> GetStageState(data, stage),
               shared |-> Shared(data, stage), n |-> 0]
    /\ UNCHANGED <<data, stateFile, tmpFile, lock, tpc, lastCall, running, crashes>>

\* The caller writes returned[name] = value into the dict it got; a dict
\* shared with the store changes in the store too.
WriteReturned(name, value) ==
    /\ running
    /\ got.stage # ""
    /\ got.n = 0
    /\ got' = [got EXCEPT !.cursor = (name :> value) @@ @, !.n = 1]
    /\ data' = IF got.shared /\ got.stage \in DOMAIN data
               THEN [data EXCEPT ![got.stage] = (name :> value) @@ @]
               ELSE data
    /\ UNCHANGED <<stateFile, tmpFile, lock, tpc, lastCall, running, crashes>>

\* ------------------------------------------------- spreadsheets: values
\* A cell of a dataframe is a str (possibly "") or the float nan.
NaN == "<nan>"

\* DataFrame.to_excel: nan is written as an empty cell (na_rep=""), and so is
\* the empty string.
ToCell(v) == IF v = NaN THEN "" ELSE v

\* pandas.read_excel: an empty cell is read as nan.
FromCell(c) == IF c = "" THEN NaN ELSE c

AbsentTable == [kind |-> "absent", columns |-> {}, rows |-> <<>>]

\* df.to_excel(path, index=False): the header row and every row, replacing
\* the file.
ToExcel(df) ==
    [kind |-> "xlsx", columns |-> df.columns,
     rows |-> [i \in 1..Len(df.rows) |->
                 [c \in df.columns |-> ToCell(df.rows[i][c])]]]

\* pd.read_excel(path)
ReadExcel(f) ==
    [columns |-> f.columns,
     rows |-> [i \in 1..Len(f.rows) |->
                 [c \in f.columns |-> FromCell(f.rows[i][c])]]]

\* ---------------------------------------------------------- the web pages
\* What the collaborators return is fixed per world: fetch_html and the
\* extraction capability are deterministic, except that a fetch or a save
\* can fail transiently.
\*
\* A block of an entry page is given by what extract_stage1_data does on it:
\* it raises, or it returns records (dicts that may lack keys).
Block(recs) == [raises |-> FALSE, records |-> recs]
RaisingBlock == [raises |-> TRUE, records |-> <<>>]

\* World "dup": entry eA has two blocks, each with a record that has no url;
\* entry eB has no block.
\* World "clean": the extraction raises on the block of eA; eB has one block
\* of two records.
\* World "none": the only entry has no block.
WorldNames == {"dup", "clean", "none"}

EntryPointsOf(w) ==
    CASE w = "dup" -> <<"eA", "eB">>
      [] w = "clean" -> <<"eA", "eB">>
      [] OTHER -> <<"eA">>

\* The blocks soup.find_all returns for the page of entry_url.
BlocksOf(w, entry_url) ==
    CASE w = "dup" /\ entry_url = "eA" ->
            << Block(<< [brand |-> "b1", url |-> "u1"], [brand |-> "b2"] >>),
               Block(<< [brand |-> "b3", url |-> "u1"], [brand |-> "b3"] >>) >>
      [] w = "clean" /\ entry_url = "eA" -> << RaisingBlock >>
      [] w = "clean" /\ entry_url = "eB" ->
            << Block(<< [brand |-> "b1", url |-> "u1"],
                        [brand |-> "b2", url |-> "u2"] >>) >>
      [] OTHER -> << >>

\* ------------------------------------------------------------- stage1.py
\* The identity columns and one payload column; "brand" stands for the
\* payload columns brand, model, body_code, years, generation, type, region.
STAGE1_COLUMNS == {"brand", "url", "entry_url"}

EmptyFrame(cols) == [columns |-> cols, rows |-> <<>>]

\* A _load_existing that starts from the empty table whatever the file holds.
LoadExisting1Fresh(f) == EmptyFrame(STAGE1_COLUMNS)

\* A faulty _load_existing that adds no column.
LoadExisting1AsRead(f) == IF f.kind = "xlsx" THEN ReadExcel(f) ELSE EmptyFrame(STAGE1_COLUMNS)

\* Stage1Processor._load_existing
LoadExisting1(f) ==
    IF f.kind = "xlsx"
    THEN LET df == ReadExcel(f)
         IN [columns |-> STAGE1_COLUMNS,
             rows |-> [i \in 1..Len(df.rows) |->
                         [c \in STAGE1_COLUMNS |->
                            IF c \in df.columns THEN df.rows[i][c] ELSE ""]]]
    ELSE EmptyFrame(STAGE1_COLUMNS)

\* The identity key of a row or record.
KeyOf(r) == <<r.entry_url, r.url>>

\* A faulty ExistingKeys: the keys of the loaded table are not collected.
ExistingKeysNone(df) == {}

\* Stage1Processor.__init__, lines 46-48: the keys of the loaded table.
ExistingKeys(df) == {KeyOf(df.rows[i]) : i \in 1..Len(df.rows)}

\* Stage1Processor._extract_records: an extraction that raises gives no
\* record; every record gets "" for a missing column and its entry_url.
ExtractRecords(block, entry_url) ==
    IF block.raises THEN << >>
    ELSE [i \in 1..Len(block.records) |->
            [c \in STAGE1_COLUMNS |->
               IF c = "entry_url" THEN entry_url
               ELSE IF c \in DOMAIN block.records[i]
                    THEN block.records[i][c] ELSE ""]]

\* Stage1Processor._append_records, lines 119-125: the records whose key is
\* not yet known, in order, and the keys known afterwards.
RECURSIVE NewRecords(_, _)
NewRecords(records, keys) ==
    IF records = << >> THEN [new |-> << >>, keys |-> keys]
    ELSE LET r == Head(records)
         IN IF KeyOf(r) \in keys
            THEN NewRecords(Tail(records), keys)
            ELSE LET rest == NewRecords(Tail(records), keys \cup {KeyOf(r)})
                 IN [new |-> <<r>> \o rest.new, keys |-> rest.keys]

\* Stage1Processor._append_records, lines 126-129: pd.concat
AppendRecords(df, records, keys) ==
    [columns |-> df.columns, rows |-> df.rows \o NewRecords(records, keys).new]

\* ----------------------------------------------- stage2.py and stage3.py
\* The columns a stage patches, with the default each gets.
STAGE2_PATCHED == {"main_image_url", "configurations"}
STAGE3_PATCHED == {"configuration_specs"}
DefaultOf(column) == IF column = "main_image_url" THEN "" ELSE "[]"

\* A faulty reindex that keeps no value of the prior output.
ReindexToDefault(existing, column, i) == DefaultOf(column)

\* values.reindex(df.index, fill_value=default): row i of the prior output,
\* or the default past its end.
Reindex(existing, column, i) ==
    IF i <= Len(existing.rows) THEN existing.rows[i][column]
    ELSE DefaultOf(column)

\* The loop of _load_existing over the patched columns.
PatchColumns(base, f, patched) ==
    LET existing == ReadExcel(f)
    IN [columns |-> base.columns \cup patched,
        rows |-> [i \in 1..Len(base.rows) |->
                    [c \in base.columns \cup patched |->
                       IF c \in patched
                       THEN IF f.kind = "xlsx" /\ c \in existing.columns
                            THEN Reindex(existing, c, i)
                            ELSE DefaultOf(c)
                       ELSE base.rows[i][c]]]]

\* Stage2Processor._load_existing
LoadExisting2(base, f) == PatchColumns(base, f, STAGE2_PATCHED)

\* Stage3Processor._load_existing
LoadExisting3(base, f) == PatchColumns(base, f, STAGE3_PATCHED)

\* `if not url`: None and "" are falsy, nan is not.
None == "<none>"
Falsy(v) == v \in {"", None}

\* fetch_html(url) of something that is no URL: requests raises.
NotAUrl(v) == v = NaN

\* extract_main_image: the link of the main image, or None.
MainImageOf(url) == IF url = "u1" THEN "img1" ELSE None

\* json.dumps(extract_configurations(soup, base_url=url))
ConfigurationsOf(url) == IF url = "u1" THEN "[c1]" ELSE "[]"

\* json.loads of a configurations cell: the configuration urls; text that is
\* no JSON raises JSONDecodeError.
IsJson(text) == text \in {"[]", "[c1]"}
JsonLoads(text) == IF text = "[c1]" THEN << "c1" >> ELSE << >>

\* Stage3Processor._fetch_specs then json.dumps: one result per
\* configuration; specs_html is "" for those in `failed`, for which line 92
\* to 97 raised.
SpecsJson(configurations, failed) ==
    IF configurations = << >> THEN "[]"
    ELSE IF 1 \in failed THEN "[c1:]" ELSE "[c1:s1]"

\* self.dataframe.at[idx, column] = value (idx counts from 0)
PatchRow(df, i, patch) ==
    [df EXCEPT !.rows[i + 1] = patch @@ df.rows[i + 1]]

\* ----------------------------------------------------- the running process
VARIABLES
    world,         \* which pages the site serves (fixed)
    epFile,        \* args.entry_points names a file that exists
    raised,        \* history: the exception that ended cli.main last, or ""
    pc,            \* the place of cli.main: "off" when no process runs
    argStage,      \* args.stage
    dataframe,     \* self.dataframe of the stage's processor
    existingKeys,  \* Stage1Processor._existing_keys
    entryIndex,    \* process(): entry_index (stage 1), row_index (2 and 3)
    blockIndex,    \* process(): block_index
    idx,           \* the loop variable idx
    bIdx,          \* the loop variable b_idx
    s1File,        \* data/stage1_results.xlsx
    s2File,        \* data/stage2_results.xlsx
    s3File,        \* data/stage3_results.xlsx
    failures,      \* history: the fetches and saves that raised so far
    s3Result,      \* history: row -> the specs stage 3 last computed for it
    redo,          \* history: the unit flushed but not checkpointed when
                   \*          the process was terminated, and its table
    halt           \* history: the unit at which a stage last stopped on a
                   \*          hard failure

memVars == <<pc, argStage, dataframe, existingKeys, entryIndex, blockIndex, idx, bIdx>>
tableVars == <<s1File, s2File, s3File>>
ghostVars == <<s3Result, redo, halt>>
pipeVars == <<world, epFile, raised, memVars, tableVars, failures, ghostVars>>
vars == <<storeVars, pipeVars>>

NoFrame == EmptyFrame({})
NoRedo == [stage |-> "", unit |-> <<0, 0>>, table |-> AbsentTable]
NoHalt == [stage |-> "", unit |-> <<0, 0>>]

Init ==
    /\ StoreInit
    /\ world \in WorldNames
    /\ epFile = TRUE
    /\ raised = ""
    /\ pc = "off"
    /\ argStage = ""
    /\ dataframe = NoFrame
    /\ existingKeys = {}
    /\ entryIndex = 0
    /\ blockIndex = 0
    /\ idx = 0
    /\ bIdx = 0
    /\ s1File = AbsentTable
    /\ s2File = AbsentTable
    /\ s3File = AbsentTable
    /\ failures = 0
    /\ s3Result = EmptyDict
    /\ redo = NoRedo
    /\ halt = NoHalt

entry_points == EntryPointsOf(world)

\* The process is gone: nothing of its memory is left.
ProcessEnds ==
    /\ pc' = "off"
    /\ running' = FALSE
    /\ data' = EmptyDict
    /\ lock' = "free"
    /\ tpc' = IdleThreads
    /\ got' = NoGot
    /\ argStage' = ""
    /\ dataframe' = NoFrame
    /\ existingKeys' = {}
    /\ entryIndex' = 0
    /\ blockIndex' = 0
    /\ idx' = 0
    /\ bIdx' = 0

\* The main thread is at place p and inside no StateManager call.
At(p) == running /\ pc = p /\ tpc[MainThread] = "idle"

\* The stage whose loop the process is in, and that stage's table file.
StageAt(p) ==
    CASE p \in {"s1_entry", "s1_block", "s1_save", "s1_update"} -> STAGE1_STATE_KEY
      [] p \in {"s2_row", "s2_save", "s2_update"} -> STAGE2_STATE_KEY
      [] p \in {"s3_row", "s3_save", "s3_update"} -> STAGE3_STATE_KEY
      [] OTHER -> ""
TableOf(stage) ==
    CASE stage = STAGE1_STATE_KEY -> s1File
      [] stage = STAGE2_STATE_KEY -> s2File
      [] OTHER -> s3File

\* The exceptions that leave cli.main.
NoEntryPoints == "FileNotFoundError: Entry points file not found"
NoStage1Results == "FileNotFoundError: Stage 1 results not found. Run stage 1 first."
NoStage2Results == "FileNotFoundError: Stage 2 results not found. Run stage 2 first."
JsonTypeError == "TypeError: the JSON object must be str, bytes or bytearray, not float"
SaveError == "OSError: to_excel"

\* cli.main, lines 65-78: the arguments, the StateManager.
StartMain(arg) ==
    /\ ~running
    /\ pc = "off"
    /\ NewStateManager
    /\ argStage' = arg
    /\ epFile' \in (IF arg \in {"1", "all"} THEN BOOLEAN ELSE {TRUE})
    /\ raised' = ""
    /\ pc' = "main_stage1"
    /\ UNCHANGED <<stateFile, tmpFile, lastCall, crashes, world, dataframe,
                   existingKeys, entryIndex, blockIndex, idx, bIdx, tableVars,
                   failures, ghostVars>>

\* The process is terminated from outside.
Crash ==
    /\ running
    /\ crashes < MaxCrashes
    /\ crashes' = crashes + 1
    /\ ProcessEnds
    /\ redo' = IF pc \in {"s1_update", "s2_update", "s3_update"}
               THEN [stage |-> StageAt(pc), unit |-> <<idx, bIdx>>,
                     table |-> TableOf(StageAt(pc))]
               ELSE redo
    /\ UNCHANGED <<stateFile, tmpFile, lastCall, world, epFile, raised, tableVars, failures,
                   s3Result, halt>>

\* run_stageN returns (its loop ended or was left by break): the processor
\* and the locals of process() are gone; cli.main goes on at place p.
Return(p) ==
    /\ pc' = p
    /\ dataframe' = NoFrame
    /\ existingKeys' = {}
    /\ entryIndex' = 0
    /\ blockIndex' = 0
    /\ idx' = 0
    /\ bIdx' = 0

\* History: the loop of the stage is left at the unit that raised.
Halts == halt' = [stage |-> StageAt(pc), unit |-> <<idx, bIdx>>]

\* History: the stage starts anew; what is remembered of its last stop goes.
Restarts(stage) == halt' = IF halt.stage = stage THEN NoHalt ELSE halt

\* History: the unit that was flushed before the termination is flushed
\* again.
Redone(stage) ==
    redo' = IF redo.stage = stage /\ redo.unit = <<idx, bIdx>> THEN NoRedo ELSE redo

\* --------------------------------------------------------------- stage 1
\* cli.main line 80, run_stage1, Stage1Processor.__init__ and the first
\* lines of process(): the table and the cursor are loaded.
MainStage1 ==
    /\ At("main_stage1")
    /\ IF argStage \in {"1", "all"}
       THEN IF ~epFile
            THEN /\ ProcessEnds
                 /\ raised' = NoEntryPoints
                 /\ UNCHANGED <<stateFile, tmpFile, lastCall, crashes, halt>>
            ELSE /\ dataframe' = LoadExisting1(s1File)
                 /\ existingKeys' = ExistingKeys(dataframe')
                 /\ entryIndex' = CursorField(GetStageState(data, STAGE1_STATE_KEY), "entry_index")
                 /\ blockIndex' = CursorField(GetStageState(data, STAGE1_STATE_KEY), "block_index")
                 /\ idx' = entryIndex'
                 /\ pc' = "s1_entry"
                 /\ Restarts(STAGE1_STATE_KEY)
                 /\ UNCHANGED <<storeVars, raised, argStage, bIdx>>
       ELSE /\ pc' = "main_stage2"
            /\ UNCHANGED <<storeVars, raised, argStage, dataframe, existingKeys,
                           entryIndex, blockIndex, idx, bIdx, halt>>
    /\ UNCHANGED <<world, epFile, tableVars, failures, s3Result, redo>>

\* The blocks of the page of entry idx.
blocks == BlocksOf(world, entry_points[idx + 1])

\* process(), lines 68-77: the next entry is fetched, or the loop is over.
S1Entry ==
    /\ At("s1_entry")
    /\ IF idx < Len(entry_points)
       THEN /\ bIdx' = (IF idx = entryIndex THEN blockIndex ELSE 0)
            /\ pc' = "s1_block"
            /\ UNCHANGED <<dataframe, existingKeys, entryIndex, blockIndex, idx>>
       ELSE Return("main_stage2")
    /\ UNCHANGED <<storeVars, world, epFile, raised, argStage, tableVars, failures, ghostVars>>

\* A loop that passes over the entry whose fetch raised and goes on.
S1FetchFailsGoesOn ==
    /\ At("s1_entry")
    /\ idx < Len(entry_points)
    /\ failures < MaxFailures
    /\ failures' = failures + 1
    /\ idx' = idx + 1
    /\ halt' = [stage |-> STAGE1_STATE_KEY,
                unit |-> <<idx, IF idx = entryIndex THEN blockIndex ELSE 0>>]
    /\ UNCHANGED <<storeVars, world, epFile, raised, argStage, pc, dataframe, existingKeys,
                   entryIndex, blockIndex, bIdx, tableVars, s3Result, redo>>

\* process(), lines 72 and 94-96: fetch_html raises; the loop is left.
S1FetchFails ==
    /\ At("s1_entry")
    /\ idx < Len(entry_points)
    /\ failures < MaxFailures
    /\ failures' = failures + 1
    /\ Return("main_stage2")
    /\ halt' = [stage |-> STAGE1_STATE_KEY,
                unit |-> <<idx, IF idx = entryIndex THEN blockIndex ELSE 0>>]
    /\ UNCHANGED <<storeVars, world, epFile, raised, argStage, tableVars, s3Result, redo>>

\* A faulty S1Extract: an extraction that raises leaves the loop.
S1ExtractRaises ==
    /\ At("s1_block")
    /\ bIdx < Len(blocks)
    /\ IF blocks[bIdx + 1].raises
       THEN /\ Return("main_stage2")
            /\ Halts
            /\ UNCHANGED <<s3Result, redo>>
       ELSE /\ LET records == ExtractRecords(blocks[bIdx + 1], entry_points[idx + 1])
               IN /\ dataframe' = AppendRecords(dataframe, records, existingKeys)
                  /\ existingKeys' = NewRecords(records, existingKeys).keys
            /\ pc' = "s1_save"
            /\ UNCHANGED <<entryIndex, blockIndex, idx, bIdx, ghostVars>>
    /\ UNCHANGED <<storeVars, world, epFile, raised, argStage, tableVars, failures>>

\* process(), lines 78-81: the records of block b_idx are extracted and
\* appended.
S1Extract ==
    /\ At("s1_block")
    /\ bIdx < Len(blocks)
    /\ LET records == ExtractRecords(blocks[bIdx + 1], entry_points[idx + 1])
       IN /\ dataframe' = AppendRecords(dataframe, records, existingKeys)
          /\ existingKeys' = NewRecords(records, existingKeys).keys
    /\ pc' = "s1_save"
    /\ UNCHANGED <<storeVars, world, epFile, raised, argStage, entryIndex, blockIndex, idx,
                   bIdx, tableVars, failures, ghostVars>>

\* A faulty S1Save: the table is not written.
S1SaveSkipped ==
    /\ At("s1_save")
    /\ pc' = "s1_update"
    /\ Redone(STAGE1_STATE_KEY)
    /\ UNCHANGED <<storeVars, world, epFile, raised, argStage, dataframe, existingKeys,
                   entryIndex, blockIndex, idx, bIdx, tableVars, failures,
                   s3Result, halt>>

\* process(), line 82: self.save()
S1Save ==
    /\ At("s1_save")
    /\ s1File' = ToExcel(dataframe)
    /\ pc' = "s1_update"
    /\ Redone(STAGE1_STATE_KEY)
    /\ UNCHANGED <<storeVars, world, epFile, raised, argStage, dataframe, existingKeys,
                   entryIndex, blockIndex, idx, bIdx, s2File, s3File, failures,
                   s3Result, halt>>

\* process(), lines 82 and 94-96: to_excel raises before it writes.
S1SaveFails ==
    /\ At("s1_save")
    /\ failures < MaxFailures
    /\ failures' = failures + 1
    /\ Return("main_stage2")
    /\ Halts
    /\ UNCHANGED <<storeVars, world, epFile, raised, argStage, tableVars, s3Result, redo>>

\* A faulty S1Update: the cursor names the block just saved, not the next.
S1UpdateSameBlock ==
    /\ At("s1_update")
    /\ UpdateStageState(MainThread, STAGE1_STATE_KEY,
                        [entry_index |-> idx, block_index |-> bIdx])
    /\ bIdx' = bIdx + 1
    /\ pc' = "s1_block"
    /\ UNCHANGED <<world, epFile, raised, argStage, dataframe, existingKeys, entryIndex,
                   blockIndex, idx, tableVars, failures, ghostVars>>

\* process(), lines 83-87: the cursor moves past block b_idx.
S1Update ==
    /\ At("s1_update")
    /\ UpdateStageState(MainThread, STAGE1_STATE_KEY,
                        [entry_index |-> idx, block_index |-> bIdx + 1])
    /\ bIdx' = bIdx + 1
    /\ pc' = "s1_block"
    /\ UNCHANGED <<world, epFile, raised, argStage, dataframe, existingKeys, entryIndex,
                   blockIndex, idx, tableVars, failures, ghostVars>>

\* A faulty S1EntryDone: the entry index is not advanced in the store.
S1EntryDoneSameEntry ==
    /\ At("s1_block")
    /\ bIdx >= Len(blocks)
    /\ blockIndex' = 0
    /\ UpdateStageState(MainThread, STAGE1_STATE_KEY,
                        [entry_index |-> idx, block_index |-> 0])
    /\ idx' = idx + 1
    /\ pc' = "s1_entry"
    /\ UNCHANGED <<world, epFile, raised, argStage, dataframe, existingKeys, entryIndex,
                   bIdx, tableVars, failures, ghostVars>>

\* process(), lines 88-93: the entry is finished.
S1EntryDone ==
    /\ At("s1_block")
    /\ bIdx >= Len(blocks)
    /\ blockIndex' = 0
    /\ UpdateStageState(MainThread, STAGE1_STATE_KEY,
                        [entry_index |-> idx + 1, block_index |-> 0])
    /\ idx' = idx + 1
    /\ pc' = "s1_entry"
    /\ UNCHANGED <<world, epFile, raised, argStage, dataframe, existingKeys, entryIndex,
                   bIdx, tableVars, failures, ghostVars>>

\* --------------------------------------------------------------- stage 2
\* A faulty run_stage2 that, without stage 1's table, goes on with an empty
\* base table.
MainStage2Unchecked ==
    /\ At("main_stage2")
    /\ IF argStage \in {"2", "all"}
       THEN /\ dataframe' = LoadExisting2(ReadExcel(s1File), s2File)
            /\ entryIndex' = CursorField(GetStageState(data, STAGE2_STATE_KEY), "row_index")
            /\ idx' = entryIndex'
            /\ pc' = "s2_row"
            /\ Restarts(STAGE2_STATE_KEY)
            /\ UNCHANGED <<storeVars, raised, argStage, existingKeys, blockIndex, bIdx>>
       ELSE /\ pc' = "main_stage3"
            /\ UNCHANGED <<storeVars, raised, argStage, dataframe, existingKeys,
                           entryIndex, blockIndex, idx, bIdx, halt>>
    /\ UNCHANGED <<world, epFile, tableVars, failures, s3Result, redo>>

\* A faulty process() of stage 2 that starts at row 0 whatever the cursor is.
MainStage2FromStart ==
    /\ At("main_stage2")
    /\ IF argStage \in {"2", "all"}
       THEN IF s1File.kind = "absent"
            THEN /\ ProcessEnds
                 /\ raised' = NoStage1Results
                 /\ UNCHANGED <<stateFile, tmpFile, lastCall, crashes, halt>>
            ELSE /\ dataframe' = LoadExisting2(ReadExcel(s1File), s2File)
                 /\ entryIndex' = 0
                 /\ idx' = 0
                 /\ pc' = "s2_row"
                 /\ Restarts(STAGE2_STATE_KEY)
                 /\ UNCHANGED <<storeVars, raised, argStage, existingKeys, blockIndex, bIdx>>
       ELSE /\ pc' = "main_stage3"
            /\ UNCHANGED <<storeVars, raised, argStage, dataframe, existingKeys,
                           entryIndex, blockIndex, idx, bIdx, halt>>
    /\ UNCHANGED <<world, epFile, tableVars, failures, s3Result, redo>>

\* cli.main line 87, run_stage2, Stage2Processor.__init__ and the first
\* lines of process().  Without stage 1's table run_stage2 raises and the
\* process ends.
MainStage2 ==
    /\ At("main_stage2")
    /\ IF argStage \in {"2", "all"}
       THEN IF s1File.kind = "absent"
            THEN /\ ProcessEnds
                 /\ raised' = NoStage1Results
                 /\ UNCHANGED <<stateFile, tmpFile, lastCall, crashes, halt>>
            ELSE /\ dataframe' = LoadExisting2(ReadExcel(s1File), s2File)
                 /\ entryIndex' = CursorField(GetStageState(data, STAGE2_STATE_KEY), "row_index")
                 /\ idx' = entryIndex'
                 /\ pc' = "s2_row"
                 /\ Restarts(STAGE2_STATE_KEY)
                 /\ UNCHANGED <<storeVars, raised, argStage, existingKeys, blockIndex, bIdx>>
       ELSE /\ pc' = "main_stage3"
            /\ UNCHANGED <<storeVars, raised, argStage, dataframe, existingKeys,
                           entryIndex, blockIndex, idx, bIdx, halt>>
    /\ UNCHANGED <<world, epFile, tableVars, failures, s3Result, redo>>

\* row = self.dataframe.iloc[idx]
row == dataframe.rows[idx + 1]

\* row.get(column): None when the table has no such column.
RowGet(r, column) == IF column \in DOMAIN r THEN r[column] ELSE None

\* process(), lines 60-75: the next row.  A row without url is passed over;
\* a url that cannot be fetched leaves the loop; otherwise the row is patched.
S2Row ==
    /\ At("s2_row")
    /\ IF idx >= Len(dataframe.rows)
       THEN Return("main_stage3") /\ UNCHANGED halt
       ELSE IF Falsy(RowGet(row, "url"))
       THEN /\ idx' = idx + 1
            /\ UNCHANGED <<pc, dataframe, existingKeys, entryIndex, blockIndex, bIdx, halt>>
       ELSE IF NotAUrl(row.url)
       THEN Return("main_stage3") /\ Halts
       ELSE /\ dataframe' = PatchRow(dataframe, idx,
                 [main_image_url |->
                      IF MainImageOf(row.url) = None THEN "" ELSE MainImageOf(row.url),
                  configurations |-> ConfigurationsOf(row.url)])
            /\ pc' = "s2_save"
            /\ UNCHANGED <<existingKeys, entryIndex, blockIndex, idx, bIdx, halt>>
    /\ UNCHANGED <<storeVars, world, epFile, raised, argStage, tableVars, failures, s3Result, redo>>

\* process(), lines 68 and 78-80: fetch_html raises; the loop is left.
S2FetchFails ==
    /\ At("s2_row")
    /\ idx < Len(dataframe.rows)
    /\ ~Falsy(RowGet(row, "url"))
    /\ failures < MaxFailures
    /\ failures' = failures + 1
    /\ Return("main_stage3")
    /\ Halts
    /\ UNCHANGED <<storeVars, world, epFile, raised, argStage, tableVars, s3Result, redo>>

\* process(), line 76: self.save()
S2Save ==
    /\ At("s2_save")
    /\ s2File' = ToExcel(dataframe)
    /\ pc' = "s2_update"
    /\ Redone(STAGE2_STATE_KEY)
    /\ UNCHANGED <<storeVars, world, epFile, raised, argStage, dataframe, existingKeys,
                   entryIndex, blockIndex, idx, bIdx, s1File, s3File, failures,
                   s3Result, halt>>

\* process(), lines 76 and 78-80: to_excel raises before it writes.
S2SaveFails ==
    /\ At("s2_save")
    /\ failures < MaxFailures
    /\ failures' = failures + 1
    /\ Return("main_stage3")
    /\ Halts
    /\ UNCHANGED <<storeVars, world, epFile, raised, argStage, tableVars, s3Result, redo>>

\* A faulty loop that takes the same row again after its checkpoint.
S2UpdateSameRow ==
    /\ At("s2_update")
    /\ UpdateStageState(MainThread, STAGE2_STATE_KEY, [row_index |-> idx + 1])
    /\ pc' = "s2_row"
    /\ UNCHANGED <<world, epFile, raised, argStage, dataframe, existingKeys, entryIndex,
                   blockIndex, idx, bIdx, tableVars, failures, ghostVars>>

\* process(), line 77: the cursor moves past row idx.
S2Update ==
    /\ At("s2_update")
    /\ UpdateStageState(MainThread, STAGE2_STATE_KEY, [row_index |-> idx + 1])
    /\ idx' = idx + 1
    /\ pc' = "s2_row"
    /\ UNCHANGED <<world, epFile, raised, argStage, dataframe, existingKeys, entryIndex,
                   blockIndex, bIdx, tableVars, failures, ghostVars>>

\* --------------------------------------------------------------- stage 3
\* cli.main line 92, run_stage3, Stage3Processor.__init__ and the first
\* lines of process().  After stage 3 cli.main returns.
MainStage3 ==
    /\ At("main_stage3")
    /\ IF argStage \in {"3", "all"} /\ s2File.kind # "absent"
       THEN /\ dataframe' = LoadExisting3(ReadExcel(s2File), s3File)
            /\ entryIndex' = CursorField(GetStageState(data, STAGE3_STATE_KEY), "row_index")
            /\ idx' = entryIndex'
            /\ pc' = "s3_row"
            /\ Restarts(STAGE3_STATE_KEY)
            /\ UNCHANGED <<storeVars, raised, argStage, existingKeys, blockIndex, bIdx>>
       ELSE /\ ProcessEnds
            /\ raised' = IF argStage \in {"3", "all"} THEN NoStage2Results ELSE raised
            /\ UNCHANGED <<stateFile, tmpFile, lastCall, crashes, halt>>
    /\ UNCHANGED <<world, epFile, tableVars, failures, s3Result, redo>>

\* configurations_raw = row.get("configurations") or "[]"
configurations_raw ==
    IF Falsy(RowGet(row, "configurations")) THEN "[]" ELSE row.configurations

\* process(), lines 64-67: text that is no JSON counts as no configuration.
configurations == IF IsJson(configurations_raw) THEN JsonLoads(configurations_raw) ELSE << >>

\* A faulty S3Row: text that is no JSON leaves the loop at its row.
S3RowInvalidJsonBreaks ==
    /\ At("s3_row")
    /\ \/ /\ IF idx < Len(dataframe.rows) THEN configurations_raw = NaN ELSE TRUE
          /\ ProcessEnds
          /\ raised' = IF idx < Len(dataframe.rows) THEN JsonTypeError ELSE raised
          /\ UNCHANGED <<stateFile, tmpFile, lastCall, crashes, failures, s3Result,
                         halt>>
       \/ /\ idx < Len(dataframe.rows)
          /\ configurations_raw # NaN
          /\ ~IsJson(configurations_raw)
          /\ ProcessEnds
          /\ Halts
          /\ UNCHANGED <<stateFile, tmpFile, lastCall, crashes, raised, failures,
                         s3Result>>
       \/ /\ idx < Len(dataframe.rows)
          /\ configurations_raw # NaN
          /\ IsJson(configurations_raw)
          /\ \E failed \in SUBSET (1..Len(configurations)) :
             \E unread \in SUBSET (1..Len(configurations)) :
                /\ failed # {} => failures < MaxFailures
                /\ failures' = IF failed # {} THEN failures + 1 ELSE failures
                /\ LET specs == SpecsJson(configurations, failed \cup unread)
                   IN /\ dataframe' = PatchRow(dataframe, idx,
                                               [configuration_specs |-> specs])
                      /\ s3Result' = (idx :> specs) @@ s3Result
          /\ pc' = "s3_save"
          /\ UNCHANGED <<storeVars, raised, argStage, existingKeys, entryIndex,
                         blockIndex, idx, bIdx, halt>>
    /\ UNCHANGED <<world, epFile, tableVars, redo>>

\* process(), lines 60-70 and 74-77: the next row.  json.loads of a nan
\* raises TypeError, which nothing catches.  In _fetch_specs fetch_html may
\* raise for the configurations in `failed` and extract_stage3_specs for
\* those in `unread`; they get empty specs.
S3Row ==
    /\ At("s3_row")
    /\ \/ /\ IF idx < Len(dataframe.rows) THEN configurations_raw = NaN ELSE TRUE
          /\ ProcessEnds
          /\ raised' = IF idx < Len(dataframe.rows) THEN JsonTypeError ELSE raised
          /\ UNCHANGED <<stateFile, tmpFile, lastCall, crashes, failures, s3Result>>
       \/ /\ idx < Len(dataframe.rows)
          /\ configurations_raw # NaN
          /\ \E failed \in SUBSET (1..Len(configurations)) :
             \E unread \in SUBSET (1..Len(configurations)) :
                /\ failed # {} => failures < MaxFailures
                /\ failures' = IF failed # {} THEN failures + 1 ELSE failures
                /\ LET specs == SpecsJson(configurations, failed \cup unread)
                   IN /\ dataframe' = PatchRow(dataframe, idx,
                                               [configuration_specs |-> specs])
                      /\ s3Result' = (idx :> specs) @@ s3Result
          /\ pc' = "s3_save"
          /\ UNCHANGED <<storeVars, raised, argStage, existingKeys, entryIndex,
                         blockIndex, idx, bIdx>>
    /\ UNCHANGED <<world, epFile, tableVars, redo, halt>>

\* process(), lines 71 and 78: self.save()
S3Save ==
    /\ At("s3_save")
    /\ s3File' = ToExcel(dataframe)
    /\ pc' = "s3_update"
    /\ Redone(STAGE3_STATE_KEY)
    /\ UNCHANGED <<storeVars, world, epFile, raised, argStage, dataframe, existingKeys,
                   entryIndex, blockIndex, idx, bIdx, s1File, s2File, failures,
                   s3Result, halt>>

\* to_excel raises before it writes: at line 78 the loop is left, at line 71
\* the exception leaves process(); either way cli.main is over.
S3SaveFails ==
    /\ At("s3_save")
    /\ failures < MaxFailures
    /\ failures' = failures + 1
    /\ ProcessEnds
    /\ Halts
    /\ raised' = IF configurations = << >> THEN SaveError ELSE raised
    /\ UNCHANGED <<stateFile, tmpFile, lastCall, crashes, world, epFile, tableVars,
                   s3Result, redo>>

\* process(), lines 72 and 79: the cursor moves past row idx.
S3Update ==
    /\ At("s3_update")
    /\ UpdateStageState(MainThread, STAGE3_STATE_KEY, [row_index |-> idx + 1])
    /\ idx' = idx + 1
    /\ pc' = "s3_row"
    /\ UNCHANGED <<world, epFile, raised, argStage, dataframe, existingKeys, entryIndex,
                   blockIndex, bIdx, tableVars, failures, ghostVars>>

\* ---------------------------------------------------------- the pipeline
StageArgs == {"1", "2", "3", "all"}

Next ==
    \/ \E arg \in StageArgs : StartMain(arg)
    \/ MainStage1 \/ S1Entry \/ S1FetchFails \/ S1Extract \/ S1Save
    \/ S1SaveFails \/ S1Update \/ S1EntryDone
    \/ MainStage2 \/ S2Row \/ S2FetchFails \/ S2Save \/ S2SaveFails \/ S2Update
    \/ MainStage3 \/ S3Row \/ S3Save \/ S3SaveFails \/ S3Update
    \/ Flush(MainThread) /\ UNCHANGED pipeVars
    \/ Crash

Spec == Init /\ [][Next]_vars

\* ------------------------------------- the store under direct callers
\* The cursor fields a caller names for a stage, and the updates it passes.
FieldsOf(stage) ==
    IF stage = STAGE1_STATE_KEY THEN {"entry_index", "block_index"} ELSE {"row_index"}
UpdatesOf(stage) == UNION {[F -> 0..MaxIndex] : F \in SUBSET FieldsOf(stage)}

\* The value a direct caller writes into a dict it got: none the store holds.
WrittenIndex == MaxIndex + 1

\* The stages the direct callers name.
CalledStages == {STAGE1_STATE_KEY, STAGE2_STATE_KEY}

\* A process constructs the StateManager on state.json.
OpenStore ==
    /\ ~running
    /\ NewStateManager
    /\ UNCHANGED <<stateFile, tmpFile, lastCall, crashes, pipeVars>>

StoreNext ==
    \/ OpenStore
    \/ \E t \in Threads, stage \in CalledStages : \E updates \in UpdatesOf(stage) :
          UpdateStageState(t, stage, updates) /\ UNCHANGED pipeVars
    \/ \E t \in Threads, stage \in CalledStages :
          ResetStage(t, stage) /\ UNCHANGED pipeVars
    \/ \E t \in Threads : Flush(t) /\ UNCHANGED pipeVars
    \/ Crash

\* ------------------------------------ the loaders on the files they find
\* The table files a stage may find when it starts: written by an earlier
\* run, by an earlier version with fewer columns, or put there by hand.
CellValues == {"", "v"}
XlsxFiles(cols, vals) ==
    {[kind |-> "xlsx", columns |-> cols, rows |-> r] :
        r \in UNION {[1..n -> [cols -> vals]] : n \in 0..MaxRows}}
Stage1Files == UNION {XlsxFiles(cols, CellValues) : cols \in SUBSET STAGE1_COLUMNS}
Stage2Files == XlsxFiles({"url", "configurations"}, CellValues)

\* The earlier outputs of a stage that patches the columns `patched`: none,
\* or a table with some of these columns and an upstream column that differs
\* from the base table's.
PriorFiles(patched) ==
    {AbsentTable} \cup
    UNION {{f \in XlsxFiles(P \cup {"url"}, CellValues \cup {"old"}) :
               \A k \in 1..Len(f.rows) :
                  /\ f.rows[k].url = "old"
                  /\ \A c \in P : f.rows[k][c] \in CellValues} :
           P \in SUBSET patched}

InitLoad ==
    /\ StoreInit
    /\ world = "none"
    /\ epFile = TRUE
    /\ raised = ""
    /\ pc = "off"
    /\ argStage = ""
    /\ dataframe = NoFrame
    /\ existingKeys = {}
    /\ entryIndex = 0
    /\ blockIndex = 0
    /\ idx = 0
    /\ bIdx = 0
    /\ \/ /\ s1File \in Stage1Files
          /\ s2File \in PriorFiles(STAGE2_PATCHED)
          /\ s3File = AbsentTable
       \/ /\ s1File = AbsentTable
          /\ s2File \in Stage2Files
          /\ s3File \in PriorFiles(STAGE3_PATCHED)
    /\ failures = 0
    /\ s3Result = EmptyDict
    /\ redo = NoRedo
    /\ halt = NoHalt

\* Stage1Processor.__init__: the table and its keys are loaded.
LoadStage1 ==
    /\ pc = "off"
    /\ s1File.kind = "xlsx"
    /\ dataframe' = LoadExisting1(s1File)
    /\ existingKeys' = ExistingKeys(dataframe')
    /\ pc' = "loaded1"
    /\ UNCHANGED <<storeVars, world, epFile, raised, argStage, entryIndex, blockIndex,
                   idx, bIdx, tableVars, failures, ghostVars>>

\* run_stage2 and Stage2Processor.__init__: base table and prior output.
LoadStage2 ==
    /\ pc = "off"
    /\ s1File.kind = "xlsx"
    /\ dataframe' = LoadExisting2(ReadExcel(s1File), s2File)
    /\ pc' = "loaded2"
    /\ UNCHANGED <<storeVars, world, epFile, raised, argStage, existingKeys, entryIndex,
                   blockIndex, idx, bIdx, tableVars, failures, ghostVars>>

\* run_stage3 and Stage3Processor.__init__: base table and prior output.
LoadStage3 ==
    /\ pc = "off"
    /\ s1File.kind = "absent"
    /\ s2File.kind = "xlsx"
    /\ dataframe' = LoadExisting3(ReadExcel(s2File), s3File)
    /\ pc' = "loaded3"
    /\ UNCHANGED <<storeVars, world, epFile, raised, argStage, existingKeys, entryIndex,
                   blockIndex, idx, bIdx, tableVars, failures, ghostVars>>

LoadNext == LoadStage1 \/ LoadStage2 \/ LoadStage3

SpecLoad == InitLoad /\ [][LoadNext]_vars

\* ------------------------------ stage 2 on the stage 1 tables it may find
\* The stage 1 tables: with the column url (cells empty or a url) or, from
\* an earlier version or put there by hand, without it.
UrlCells == {"", "u1"}
Stage2Bases == XlsxFiles({"url"}, UrlCells) \cup XlsxFiles({"brand"}, UrlCells)

InitStage2 ==
    /\ StoreInit
    /\ world = "none"
    /\ epFile = TRUE
    /\ raised = ""
    /\ pc = "off"
    /\ argStage = ""
    /\ dataframe = NoFrame
    /\ existingKeys = {}
    /\ entryIndex = 0
    /\ blockIndex = 0
    /\ idx = 0
    /\ bIdx = 0
    /\ s1File \in Stage2Bases
    /\ s2File = AbsentTable
    /\ s3File = AbsentTable
    /\ failures = 0
    /\ s3Result = EmptyDict
    /\ redo = NoRedo
    /\ halt = NoHalt

\* cli.main --stage 2, any number of times.
Stage2Next ==
    \/ StartMain("2")
    \/ MainStage1
    \/ MainStage2 \/ S2Row \/ S2FetchFails \/ S2Save \/ S2SaveFails \/ S2Update
    \/ MainStage3
    \/ Flush(MainThread) /\ UNCHANGED pipeVars
    \/ Crash

SpecStage2 == InitStage2 /\ [][Stage2Next]_vars

\* ------------------------------ stage 3 on the stage 2 tables it may find
\* The configurations cells of a stage 2 table: empty, text that is no JSON,
\* a list of one configuration.
ConfigurationCells == {"", "v", "[c1]"}
Stage3Bases == XlsxFiles({"configurations"}, ConfigurationCells)

InitStage3 ==
    /\ StoreInit
    /\ world = "none"
    /\ epFile = TRUE
    /\ raised = ""
    /\ pc = "off"
    /\ argStage = ""
    /\ dataframe = NoFrame
    /\ existingKeys = {}
    /\ entryIndex = 0
    /\ blockIndex = 0
    /\ idx = 0
    /\ bIdx = 0
    /\ s1File = AbsentTable
    /\ s2File \in Stage3Bases
    /\ s3File = AbsentTable
    /\ failures = 0
    /\ s3Result = EmptyDict
    /\ redo = NoRedo
    /\ halt = NoHalt

\* cli.main --stage 3, any number of times.
Stage3Next ==
    \/ StartMain("3")
    \/ MainStage1 \/ MainStage2
    \/ MainStage3 \/ S3Row \/ S3Save \/ S3SaveFails \/ S3Update
    \/ Flush(MainThread) /\ UNCHANGED pipeVars
    \/ Crash

SpecStage3 == InitStage3 /\ [][Stage3Next]_vars

\* The pages play no part here: one world is enough.
InitStore == Init /\ world = "none"

SpecStore == InitStore /\ [][StoreNext]_vars

\* The updates the stages pass: every field of the stage's cursor.
FullUpdatesOf(stage) == [FieldsOf(stage) -> 0..MaxIndex]

\* The store under a main thread that updates and resets while any thread
\* reads cursors with get_stage_state and writes into the dicts it got.
GetNext ==
    \/ OpenStore
    \/ \E stage \in CalledStages : \E updates \in FullUpdatesOf(stage) :
          UpdateStageState(MainThread, stage, updates) /\ UNCHANGED pipeVars
    \/ \E stage \in CalledStages : ResetStage(MainThread, stage) /\ UNCHANGED pipeVars
    \/ Flush(MainThread) /\ UNCHANGED pipeVars
    \/ \E stage \in CalledStages : GetStageStateCall(stage) /\ UNCHANGED pipeVars
    \/ WriteReturned("row_index", WrittenIndex) /\ UNCHANGED pipeVars
    \/ Crash

SpecGet == InitStore /\ [][GetNext]_vars

\* ------------------------------------------------------------ properties
\* The cursor of a stage as a new process would load it from state.json.
Persisted(stage) == GetStageState(LoadState(stateFile), stage)
PersistedField(stage, name) == CursorField(Persisted(stage), name)

\* The identity keys of the rows of a stage 1 table file.
FileKeys(f) == {<<f.rows[k].entry_url, f.rows[k].url>> : k \in 1..Len(f.rows)}

\* Block b of entry i (both counted from 0) comes before the cursor (ei, bi).
Before(i, b, ei, bi) == i < ei \/ (i = ei /\ b < bi)

\* Every record of every block before the stage 1 cursor of state.json has
\* its key in stage1_results.xlsx.
CursorBehindTable1 ==
    \A i \in 1..Len(entry_points) :
      \A b \in 1..Len(BlocksOf(world, entry_points[i])) :
        Before(i - 1, b - 1, PersistedField(STAGE1_STATE_KEY, "entry_index"),
               PersistedField(STAGE1_STATE_KEY, "block_index"))
        => LET recs == ExtractRecords(BlocksOf(world, entry_points[i])[b], entry_points[i])
           IN \A n \in 1..Len(recs) :
                <<ToCell(recs[n].entry_url), ToCell(recs[n].url)>> \in FileKeys(s1File)

\* Every row before the stage 2 cursor of state.json is in
\* stage2_results.xlsx with the image and the configurations of its page.
CursorBehindTable2 ==
    \A k \in 1..PersistedField(STAGE2_STATE_KEY, "row_index") :
        /\ s2File.kind = "xlsx"
        /\ k <= Len(s2File.rows)
        /\ LET url == FromCell(s2File.rows[k].url)
           IN \/ Falsy(url)
              \/ /\ s2File.rows[k].main_image_url =
                      (IF MainImageOf(url) = None THEN "" ELSE MainImageOf(url))
                 /\ s2File.rows[k].configurations = ConfigurationsOf(url)

\* Every row before the stage 3 cursor of state.json is in
\* stage3_results.xlsx with the specs computed for it.
CursorBehindTable3 ==
    \A k \in 1..PersistedField(STAGE3_STATE_KEY, "row_index") :
        /\ s3File.kind = "xlsx"
        /\ k <= Len(s3File.rows)
        /\ (k - 1) \in DOMAIN s3Result
        /\ s3File.rows[k].configuration_specs = ToCell(s3Result[k - 1])

\* C1: in every reachable state (a termination can happen in any of them),
\* the cursor of state.json points past no unit whose result is missing from
\* the stage's table file: the table is flushed before the cursor advances.
C1_FlushBeforeCursor ==
    CursorBehindTable1 /\ CursorBehindTable2 /\ CursorBehindTable3

\* The process was terminated after the flush of row 1 of stage 3 and before
\* its checkpoint, with all three cursors advanced.
C1_Witness ==
    /\ ~running
    /\ redo.stage = STAGE3_STATE_KEY
    /\ PersistedField(STAGE1_STATE_KEY, "entry_index") >= 1
    /\ PersistedField(STAGE2_STATE_KEY, "row_index") >= 1
    /\ PersistedField(STAGE3_STATE_KEY, "row_index") >= 1

\* C2: no two rows of stage1_results.xlsx share the identity key
\* (entry_url, url).
C2_UniqueKeys ==
    \A j, k \in 1..Len(s1File.rows) :
        j # k => <<s1File.rows[j].entry_url, s1File.rows[j].url>>
                 # <<s1File.rows[k].entry_url, s1File.rows[k].url>>

\* The keys of the rows of the table in memory.
KeysIn(df) == {KeyOf(df.rows[k]) : k \in 1..Len(df.rows)}

\* The records process() extracts from block b_idx of entry idx.
recordsAtBlock == ExtractRecords(blocks[bIdx + 1], entry_points[idx + 1])

IsPrefix(a, b) == Len(a) <= Len(b) /\ \A k \in 1..Len(a) : a[k] = b[k]

RECURSIVE Concat(_)
Concat(seqs) == IF Len(seqs) = 0 THEN << >> ELSE Head(seqs) \o Concat(Tail(seqs))

\* All records of all blocks of all entries, in the order of one pass.
RecordsOfEntry(e) ==
    Concat([b \in 1..Len(BlocksOf(world, e)) |-> ExtractRecords(BlocksOf(world, e)[b], e)])
AllRecords == Concat([i \in 1..Len(entry_points) |-> RecordsOfEntry(entry_points[i])])

\* The table file one uninterrupted pass of stage 1 leaves.
OnePassTable == ToExcel(AppendRecords(EmptyFrame(STAGE1_COLUMNS), AllRecords, {}))

\* The same rows, each as often, in any order.
Occurrences(rows, r) == Cardinality({k \in 1..Len(rows) : rows[k] = r})
SameRows(a, b) ==
    /\ Len(a) = Len(b)
    /\ \A k \in 1..Len(a) : Occurrences(a, a[k]) = Occurrences(b, a[k])

Stage1Complete == PersistedField(STAGE1_STATE_KEY, "entry_index") = Len(entry_points)

\* C4: once stage 1 has run to completion, however often it was interrupted
\* and resumed, stage1_results.xlsx holds the rows of one uninterrupted pass,
\* up to their order.
C4_ResumeCorrectness ==
    Stage1Complete => SameRows(s1File.rows, OnePassTable.rows)

\* The cells stage 2 patches in row k (from 1) of a stage 2 table file.
Patched2(f, k) == <<f.rows[k].main_image_url, f.rows[k].configurations>>

\* Some configuration of the row got empty specs: its fetch or extraction
\* raised.
SoftFailed(text) == text = "[c1:]"

\* C5: when the process was terminated right after the flush of unit N and
\* before the cursor update, the next invocation of the stage starts at unit
\* N, and its flush of unit N leaves the stage 1 table without a new row
\* (the rows of N are duplicates) and the row of stage 2 or 3 with the
\* identical patched value.
C5_CheckpointBeforeSkip ==
    [][/\ (redo.stage = STAGE1_STATE_KEY /\ pc = "main_stage1" /\ pc' = "s1_entry")
            => <<entryIndex', blockIndex'>> = redo.unit
       /\ (redo.stage = STAGE2_STATE_KEY /\ pc = "main_stage2" /\ pc' = "s2_row")
            => idx' = redo.unit[1]
       /\ (redo.stage = STAGE3_STATE_KEY /\ pc = "main_stage3" /\ pc' = "s3_row")
            => idx' = redo.unit[1]
       /\ (redo.stage = STAGE1_STATE_KEY /\ pc = "s1_save" /\ pc' = "s1_update"
             /\ <<idx, bIdx>> = redo.unit)
            => s1File'.rows = redo.table.rows
       /\ (redo.stage = STAGE2_STATE_KEY /\ pc = "s2_save" /\ pc' = "s2_update"
             /\ <<idx, bIdx>> = redo.unit)
            => Patched2(s2File', idx + 1) = Patched2(redo.table, idx + 1)
       /\ (redo.stage = STAGE3_STATE_KEY /\ pc = "s3_save" /\ pc' = "s3_update"
             /\ <<idx, bIdx>> = redo.unit
             /\ ~SoftFailed(s3File'.rows[idx + 1].configuration_specs)
             /\ ~SoftFailed(redo.table.rows[idx + 1].configuration_specs))
            => s3File'.rows[idx + 1].configuration_specs
               = redo.table.rows[idx + 1].configuration_specs]_vars

\* The cursor of state.json as the unit it names.
PersistedUnit(stage) ==
    IF stage = STAGE1_STATE_KEY
    THEN <<PersistedField(stage, "entry_index"), PersistedField(stage, "block_index")>>
    ELSE <<PersistedField(stage, "row_index"), 0>>

\* C6: when a unit raises a hard failure the loop of the stage is left and
\* the stage is not entered again in that process; the failure changes no
\* file, the cursor of state.json names the failed unit and the tables hold
\* the results of all units before the cursors; the next invocation of the
\* stage starts at the failed unit.
C6_FailurePolicy ==
    /\ [](running /\ halt.stage # "" => StageAt(pc) # halt.stage)
    /\ [][/\ (halt' # halt /\ halt'.stage # "")
               => /\ StageAt(pc') # halt'.stage
                  /\ tableVars' = tableVars
                  /\ stateFile' = stateFile
                  /\ PersistedUnit(halt'.stage) = halt'.unit
                  /\ C1_FlushBeforeCursor'
          /\ (halt.stage = STAGE1_STATE_KEY /\ pc = "main_stage1" /\ pc' = "s1_entry")
               => <<entryIndex', blockIndex'>> = halt.unit
          /\ (halt.stage = STAGE2_STATE_KEY /\ pc = "main_stage2" /\ pc' = "s2_row")
               => idx' = halt.unit[1]
          /\ (halt.stage = STAGE3_STATE_KEY /\ pc = "main_stage3" /\ pc' = "s3_row")
               => idx' = halt.unit[1]]_vars

\* Stage 2 has stopped at a row after the first: its file holds the rows
\* before it and the cursor of state.json names it.
C6_Witness ==
    /\ running
    /\ halt.stage = STAGE2_STATE_KEY
    /\ halt.unit[1] >= 1
    /\ PersistedUnit(STAGE2_STATE_KEY) = halt.unit
    /\ s2File.kind = "xlsx"
    /\ pc = "main_stage3"

\* C7: stage1_results.xlsx only grows by appending: the table of any moment
\* is a prefix (same rows, same places, same cells) of the table of any
\* later moment.
C7_TableOnlyGrows ==
    [][s1File.kind = "xlsx"
       => /\ s1File'.kind = "xlsx"
          /\ s1File'.columns = s1File.columns
          /\ IsPrefix(s1File.rows, s1File'.rows)]_vars

\* A process that loaded a table of two rows has appended a third and
\* flushed.
C7_Witness ==
    /\ crashes + failures > 0
    /\ dataframe = LoadExisting1(s1File)
    /\ Len(s1File.rows) >= 3

CursorFields == {"entry_index", "block_index", "row_index"}

\* C8 as stated: every cursor field of every stage is non-decreasing over the
\* updates of state.json.
C8_EveryFieldMonotone ==
    [][\A stage \in Stages, name \in CursorFields :
          PersistedField(stage, name) <= PersistedField(stage, name)']_vars

\* C8 as amended: entry_index and row_index are non-decreasing, and
\* block_index is non-decreasing as long as entry_index stays the same (the
\* pair (entry_index, block_index) never goes back in lexicographic order).
C8_CursorMonotone ==
    [][/\ PersistedField(STAGE1_STATE_KEY, "entry_index")
            <= PersistedField(STAGE1_STATE_KEY, "entry_index")'
       /\ PersistedField(STAGE1_STATE_KEY, "entry_index")
            = PersistedField(STAGE1_STATE_KEY, "entry_index")'
          => PersistedField(STAGE1_STATE_KEY, "block_index")
               <= PersistedField(STAGE1_STATE_KEY, "block_index")'
       /\ PersistedField(STAGE2_STATE_KEY, "row_index")
            <= PersistedField(STAGE2_STATE_KEY, "row_index")'
       /\ PersistedField(STAGE3_STATE_KEY, "row_index")
            <= PersistedField(STAGE3_STATE_KEY, "row_index")']_vars

\* The entry of two blocks is finished: block_index went from 2 back to 0
\* while entry_index went on; the row cursors have advanced too.
C8_Witness ==
    /\ world = "dup"
    /\ Persisted(STAGE1_STATE_KEY) = [entry_index |-> 1, block_index |-> 0]
    /\ PersistedField(STAGE2_STATE_KEY, "row_index") >= 1
    /\ PersistedField(STAGE3_STATE_KEY, "row_index") >= 1

\* C9: whenever the process may be terminated, during update or reset or
\* outside them, state.json is readable and holds the complete store of
\* before the latest call or the complete store of after it.
C9_AtomicStateFile ==
    /\ stateFile.kind # "partial"
    /\ LoadState(stateFile) \in {lastCall.pre, lastCall.post}

\* The process was terminated while _flush was writing state.tmp: state.json
\* still holds the store of before the call.
C9_Witness ==
    /\ ~running
    /\ crashes > 0
    /\ tmpFile.kind = "partial"
    /\ lastCall.pre # lastCall.post
    /\ stateFile = JsonDump(lastCall.pre)

\* C10: update changes only the named fields of the stage's cursor, keeps
\* the other fields of the stage and the cursors of the other stages, and
\* when it returns state.json reads back as the store in memory.
C10_UpdateFrame ==
    [][\A t \in Threads :
         /\ (lock = "free" /\ lock' = t /\ lastCall'.op = "update")
              => LET stage == lastCall'.stage
                     updates == lastCall'.updates
                     old == GetStageState(data, stage)
                 IN /\ DOMAIN data' = DOMAIN data \cup {stage}
                    /\ \A s \in DOMAIN data \ {stage} : data'[s] = data[s]
                    /\ DOMAIN data'[stage] = DOMAIN old \cup DOMAIN updates
                    /\ \A f \in DOMAIN updates : data'[stage][f] = updates[f]
                    /\ \A f \in DOMAIN old \ DOMAIN updates : data'[stage][f] = old[f]
         /\ (lock = t /\ lock' = "free" /\ running' /\ lastCall.op = "update")
              => LoadState(stateFile') = data']_vars

\* An update of one field has returned: the stage kept its other field,
\* another stage kept its cursor, and state.json reads back as the store.
C10_Witness ==
    /\ running
    /\ lock = "free"
    /\ lastCall.op = "update"
    /\ lastCall.post = data
    /\ LoadState(stateFile) = data
    /\ lastCall.stage \in DOMAIN lastCall.pre
    /\ DOMAIN lastCall.pre[lastCall.stage] \ DOMAIN lastCall.updates # {}
    /\ DOMAIN lastCall.pre \ {lastCall.stage} # {}

\* get_stage_state has just returned a dict to a direct caller.
GetReturns == got' # got /\ got'.stage # "" /\ got'.n = 0

\* C11: get returns the cursor last written for the stage (the one of
\* state.json, or the one of the call that holds the lock and has yet to
\* flush), the empty cursor, all of whose fields read 0, for a stage that
\* has none; it is defined for every stage, changes neither the store nor
\* its files, and a write of the caller into the returned dict changes
\* nothing a later get returns.
C11_Get ==
    /\ [](\A stage \in Stages : DOMAIN GetStageState(data, stage) \subseteq CursorFields)
    /\ [][/\ GetReturns
               => /\ got'.cursor
                       = GetStageState(IF lock = "free" THEN LoadState(stateFile)
                                                        ELSE lastCall.post,
                                       got'.stage)
                  /\ got'.stage \notin DOMAIN data
                       => \A name \in CursorFields : CursorField(got'.cursor, name) = 0
                  /\ UNCHANGED <<data, stateFile, tmpFile, lock, tpc>>
          /\ got'.n > got.n
               => /\ UNCHANGED <<data, stateFile, tmpFile>>
                  /\ \A stage \in Stages :
                        GetStageState(data', stage) = GetStageState(data, stage)]_vars

\* The caller has written into the dict it got for a stage that has a
\* cursor: the store still holds the cursor as it was returned.
C11_Witness ==
    /\ running
    /\ got.n = 1
    /\ got.stage \in DOMAIN data
    /\ data[got.stage] # EmptyDict
    /\ got.cursor = ("row_index" :> WrittenIndex) @@ data[got.stage]
    /\ got.cursor # data[got.stage]

\* C12: reset removes the cursor of the stage from the store in memory and,
\* when it returns, from state.json, so that get returns the empty cursor
\* for it; the cursors of the other stages stay as they were, in memory and
\* in state.json; a reset of a stage without cursor changes nothing.
C12_Reset ==
    [][\A t \in Threads :
         /\ (lastCall' # lastCall /\ lastCall'.op = "reset")
              => LET stage == lastCall'.stage
                 IN /\ DOMAIN data' = DOMAIN data \ {stage}
                    /\ \A s \in DOMAIN data' : data'[s] = data[s]
                    /\ GetStageState(data', stage) = EmptyDict
                    /\ stage \notin DOMAIN data
                         => UNCHANGED <<data, stateFile, tmpFile, lock, tpc>>
         /\ (lock = t /\ lock' = "free" /\ running' /\ lastCall.op = "reset")
              => /\ LoadState(stateFile') = data'
                 /\ Persisted(lastCall.stage)' = EmptyDict
                 /\ \A s \in DOMAIN lastCall.pre \ {lastCall.stage} :
                       Persisted(s)' = lastCall.pre[s]]_vars

\* A reset of a stage that had a cursor has returned: the stage is gone from
\* the store and from state.json, another stage has kept its cursor.
C12_Witness ==
    /\ running
    /\ lock = "free"
    /\ lastCall.op = "reset"
    /\ lastCall.stage \in DOMAIN lastCall.pre
    /\ data = lastCall.post
    /\ stateFile = JsonDump(data)
    /\ lastCall.stage \notin DOMAIN data
    /\ DOMAIN data # {}

\* The threads inside the section of update/reset that modifies the store
\* and flushes it.
InSection == {t \in Threads : tpc[t] # "idle"}

\* C13: update and reset calls of several threads on one StateManager are
\* serialised by the lock: at most one thread is in the modify-and-flush
\* section, and it holds the lock; every call starts from the store the
\* call before it left (no update is lost) and the store changes in no
\* other way; when no call is in flight state.json reads back as the store
\* in memory.
C13_Serialised ==
    /\ [](/\ Cardinality(InSection) <= 1
          /\ \A t \in Threads : t \in InSection <=> lock = t
          /\ (running /\ lock = "free") => LoadState(stateFile) = data
          /\ (running /\ lock # "free") => data = lastCall.post)
    /\ [][/\ (lastCall' # lastCall)
               => /\ lock = "free"
                  /\ lastCall'.pre = data
                  /\ lastCall'.post = data'
          /\ (running /\ running' /\ data' # data)
               => /\ lock = "free"
                  /\ lock' # "free"
                  /\ lastCall'.pre = data
                  /\ lastCall'.post = data'
          /\ (running /\ running' /\ stateFile' # stateFile)
               => /\ lock # "free"
                  /\ lock' = "free"
                  /\ LoadState(stateFile') = lastCall.post]_vars

\* The second thread is in the section, about to replace state.json, which
\* holds what the call of the main thread before it left.
C13_Witness ==
    /\ crashes = 0
    /\ lock = "aux"
    /\ tpc["aux"] = "flush_replace"
    /\ tpc[MainThread] = "idle"
    /\ lastCall.thread = "aux"
    /\ lastCall.pre # EmptyDict
    /\ lastCall.post # lastCall.pre
    /\ stateFile = JsonDump(lastCall.pre)
    /\ tmpFile = JsonDump(data)

\* The loop goes from place p to place q.
Goes(p, q) == pc = p /\ pc' = q

\* The steps of the loops of process(): every unit is taken up after the one
\* before it was saved and checkpointed, and the one after it is taken up
\* next.
InOrder1 ==
    \/ Goes("s1_entry", "s1_block")
         /\ idx' = idx /\ bIdx' = (IF idx = entryIndex THEN blockIndex ELSE 0)
    \/ Goes("s1_block", "s1_save") /\ bIdx < Len(blocks) /\ idx' = idx /\ bIdx' = bIdx
    \/ Goes("s1_save", "s1_update") /\ idx' = idx /\ bIdx' = bIdx
    \/ Goes("s1_update", "s1_block") /\ idx' = idx /\ bIdx' = bIdx + 1
    \/ Goes("s1_block", "s1_entry") /\ bIdx >= Len(blocks) /\ idx' = idx + 1
    \/ pc' = pc /\ idx' = idx /\ bIdx' = bIdx
InOrderRows(r, s, u) ==
    \/ Goes(r, s) /\ idx < Len(dataframe.rows) /\ idx' = idx
    \/ Goes(s, u) /\ idx' = idx
    \/ Goes(u, r) /\ idx' = idx + 1
    \/ Goes(r, r) /\ idx' \in {idx, idx + 1}
    \/ pc' = pc /\ idx' = idx

\* C14: within one invocation a stage takes its units strictly in order from
\* the cursor on: entries in list order and the blocks of an entry in page
\* order from the cursor's block (stage 1), rows in row order (stages 2 and
\* 3); a unit is taken up only when the one before it is saved and
\* checkpointed, none is passed over and none is taken twice.
C14_Ordering ==
    [][/\ Goes("main_stage1", "s1_entry")
            => idx' = CursorField(GetStageState(data, STAGE1_STATE_KEY), "entry_index")
       /\ Goes("main_stage2", "s2_row")
            => idx' = CursorField(GetStageState(data, STAGE2_STATE_KEY), "row_index")
       /\ Goes("main_stage3", "s3_row")
            => idx' = CursorField(GetStageState(data, STAGE3_STATE_KEY), "row_index")
       /\ (StageAt(pc) = STAGE1_STATE_KEY /\ StageAt(pc') = STAGE1_STATE_KEY) => InOrder1
       /\ (StageAt(pc) = STAGE2_STATE_KEY /\ StageAt(pc') = STAGE2_STATE_KEY)
            => InOrderRows("s2_row", "s2_save", "s2_update")
       /\ (StageAt(pc) = STAGE3_STATE_KEY /\ StageAt(pc') = STAGE3_STATE_KEY)
            => InOrderRows("s3_row", "s3_save", "s3_update")]_vars

\* An invocation of stage 1 that started at the first entry has gone through
\* its block and has taken up the first block of the second entry.
C14_Witness ==
    /\ running
    /\ pc = "s1_save"
    /\ entryIndex = 0
    /\ idx = 1
    /\ bIdx = 0
    /\ PersistedUnit(STAGE1_STATE_KEY) = <<1, 0>>

\* cli.main is about to call run_stageN and the file run_stageN needs is
\* missing.
SetupFails(stage) ==
    /\ running
    /\ CASE stage = STAGE1_STATE_KEY ->
              pc = "main_stage1" /\ argStage \in {"1", "all"} /\ ~epFile
         [] stage = STAGE2_STATE_KEY ->
              pc = "main_stage2" /\ argStage \in {"2", "all"} /\ s1File.kind = "absent"
         [] OTHER ->
              pc = "main_stage3" /\ argStage \in {"3", "all"} /\ s2File.kind = "absent"
SetupError(stage) ==
    CASE stage = STAGE1_STATE_KEY -> NoEntryPoints
      [] stage = STAGE2_STATE_KEY -> NoStage1Results
      [] OTHER -> NoStage2Results

\* C15: when the input file of a stage is missing (the entry points file for
\* stage 1, stage1_results.xlsx for stage 2, stage2_results.xlsx for stage
\* 3) run_stageN raises FileNotFoundError to cli.main before it takes up a
\* unit: the process is over at once, and state.json, state.tmp and the
\* three tables are left as they were.  Only then is that error raised.
C15_SetupFailure ==
    [][\A stage \in Stages :
         /\ (SetupFails(stage) /\ pc' # pc)
              => /\ pc' = "off"
                 /\ ~running'
                 /\ raised' = SetupError(stage) \/ crashes' = crashes + 1
                 /\ UNCHANGED <<stateFile, tmpFile, tableVars>>
         /\ (raised' # raised /\ raised' = SetupError(stage)) => SetupFails(stage)]_vars

\* Stage 3 was invoked when stage 1 had written its table and its cursor and
\* stage 2 had not run: it raised, and the files are as stage 1 left them.
C15_Witness ==
    /\ ~running
    /\ raised = NoStage2Results
    /\ s1File.kind = "xlsx"
    /\ s2File.kind = "absent"
    /\ s3File.kind = "absent"
    /\ PersistedField(STAGE1_STATE_KEY, "entry_index") >= 1
    /\ Persisted(STAGE3_STATE_KEY) = EmptyDict

\* The column `c` of a loaded table holds, row by row, what read_excel reads
\* in the prior output `f` as far as `f` goes, and the default after it or
\* when `f` lacks the column.
Aligned(f, c) ==
    \A i \in 1..Len(dataframe.rows) :
       dataframe.rows[i][c] =
          IF f.kind = "xlsx" /\ c \in f.columns /\ i <= Len(f.rows)
          THEN FromCell(f.rows[i][c])
          ELSE DefaultOf(c)

\* The columns of the base file `f` hold in the loaded table what read_excel
\* reads in `f`.
FromBase(f, patched) ==
    /\ Len(dataframe.rows) = Len(f.rows)
    /\ dataframe.columns = f.columns \cup patched
    /\ \A i \in 1..Len(f.rows) : \A c \in f.columns \ patched :
          dataframe.rows[i][c] = FromCell(f.rows[i][c])

\* C16: the table stage 2 (stage 3) loads from a base table of N rows and a
\* prior output of M rows has N rows; a patched column holds in row i the
\* prior output's value of row i for i < M and its default for i >= M (the
\* prior values past N are dropped), and the default everywhere when the
\* prior output or its column is missing; the other columns are the base
\* table's.
C16_PatchAlignment ==
    /\ pc = "loaded2"
         => /\ FromBase(s1File, STAGE2_PATCHED)
            /\ \A c \in STAGE2_PATCHED : Aligned(s2File, c)
    /\ pc = "loaded3"
         => /\ FromBase(s2File, STAGE3_PATCHED)
            /\ \A c \in STAGE3_PATCHED : Aligned(s3File, c)

\* Stage 2 has loaded a base table of two rows over a prior output of one
\* row: the first row has the prior value, the second the default.
C16_Witness ==
    /\ pc = "loaded2"
    /\ s1File.columns = STAGE1_COLUMNS
    /\ s2File.kind = "xlsx"
    /\ "configurations" \in s2File.columns
    /\ Len(s1File.rows) = 2
    /\ Len(s2File.rows) = 1
    /\ s2File.rows[1].configurations = "v"
    /\ dataframe.rows[1].configurations = "v"
    /\ dataframe.rows[2].configurations = "[]"
    /\ dataframe.rows[1].url = FromCell(s1File.rows[1].url)

\* C17: the table stage 1 loads from a file that lacks canonical columns has
\* all the canonical columns and the rows of the file; a column the file
\* lacks holds "" in every row, a column it has holds what the file holds.
C17_SchemaBackfill ==
    pc = "loaded1"
      => /\ dataframe.columns = STAGE1_COLUMNS
         /\ Len(dataframe.rows) = Len(s1File.rows)
         /\ \A i \in 1..Len(s1File.rows) : \A c \in STAGE1_COLUMNS :
               dataframe.rows[i][c] =
                  IF c \in s1File.columns THEN FromCell(s1File.rows[i][c]) ELSE ""

\* Stage 1 has loaded a file of two rows without the column "brand".
C17_Witness ==
    /\ pc = "loaded1"
    /\ s1File.columns = {"url", "entry_url"}
    /\ Len(s1File.rows) = 2
    /\ s1File.rows[1].url = "v"
    /\ dataframe.rows[1] = [brand |-> "", url |-> "v", entry_url |-> NaN]
    /\ dataframe.rows[2].brand = ""

\* A step in which fetch_html raised: for an entry page (stage 1), a model
\* page (stage 2) or a configuration page (stage 3).
FetchRaises == pc \in {"s1_entry", "s2_row", "s3_row"} /\ failures' = failures + 1

\* C18: when fetch_html raises for a unit of any stage, a configuration page
\* of a stage 3 row included, the loop of the stage is left at that unit: no
\* table is changed, and state.json keeps the cursor at that unit.
C18_FetchFailureIsHard ==
    [][FetchRaises
         => /\ StageAt(pc') # StageAt(pc)
            /\ dataframe' = NoFrame
            /\ tableVars' = tableVars
            /\ stateFile' = stateFile
            /\ PersistedUnit(StageAt(pc)) = <<idx, IF pc = "s1_entry" THEN
                   (IF idx = entryIndex THEN blockIndex ELSE 0) ELSE bIdx>>]_vars

\* The row at idx holds configurations text that json.loads refuses with
\* JSONDecodeError.
InvalidJsonRow ==
    /\ running
    /\ idx < Len(dataframe.rows)
    /\ configurations_raw # NaN
    /\ ~IsJson(configurations_raw)

AtRaisingBlock ==
    /\ running
    /\ pc \in {"s1_block", "s1_save", "s1_update"}
    /\ bIdx < Len(blocks)
    /\ blocks[bIdx + 1].raises

\* C20: when extract_stage1_data raises for a block, stage 1 is not left:
\* the block adds no record, the table is flushed as it is, the cursor moves
\* to the next block, and the loop goes on; a stage 1 that no hard failure
\* stopped has passed every entry, and where no record lacks its url the
\* table holds the records of all the other blocks.
C20_SoftFailure ==
    /\ []((At("main_stage2") /\ argStage \in {"1", "all"}
             /\ halt.stage # STAGE1_STATE_KEY)
            => /\ Stage1Complete
               /\ world = "clean" => s1File = OnePassTable)
    /\ [][/\ (pc = "s1_block" /\ AtRaisingBlock /\ crashes' = crashes /\ pc' # pc)
               => /\ pc' = "s1_save"
                  /\ UNCHANGED <<dataframe, existingKeys, idx, bIdx, tableVars,
                                 stateFile, failures, halt>>
          /\ (pc = "s1_save" /\ AtRaisingBlock /\ pc' = "s1_update")
               => s1File' = ToExcel(dataframe)
          /\ (pc = "s1_update" /\ AtRaisingBlock /\ crashes' = crashes /\ pc' # pc)
               => /\ pc' = "s1_block"
                  /\ UNCHANGED <<idx, dataframe, halt>>
                  /\ bIdx' = bIdx + 1
                  /\ GetStageState(data', STAGE1_STATE_KEY)
                        = [entry_index |-> idx, block_index |-> bIdx + 1]]_vars

\* An invocation of stage 1 that started at the block on which the
\* extraction raises has, without a failure or a termination, flushed the
\* two records of the block of the next entry and moved the cursor past it.
C20_Witness ==
    /\ At("s1_block")
    /\ world = "clean"
    /\ entryIndex = 0
    /\ blockIndex = 0
    /\ idx = 1
    /\ bIdx = 1
    /\ crashes = 0
    /\ failures = 0
    /\ Len(s1File.rows) = 2
    /\ PersistedUnit(STAGE1_STATE_KEY) = <<1, 1>>

\* The stage 1 cursor as update_stage_state writes it.
Cursor1(i, b) == [entry_index |-> i, block_index |-> b]

\* C21: once block b of entry i is saved the stage 1 cursor is written as
\* {entry_index: i, block_index: b + 1}, and once entry i is finished (with
\* or without blocks) as {entry_index: i + 1, block_index: 0}; between the
\* units state.json holds just that; a run starts at the entry and the block
\* state.json names and takes every later entry from its block 0.
C21_CursorTrace ==
    /\ [](/\ At("s1_block") => PersistedUnit(STAGE1_STATE_KEY) = <<idx, bIdx>>
          /\ At("s1_entry") => PersistedUnit(STAGE1_STATE_KEY)
                                  = <<idx, IF idx = entryIndex THEN blockIndex ELSE 0>>)
    /\ [][/\ Goes("s1_update", "s1_block")
               => /\ s1File = ToExcel(dataframe)
                  /\ GetStageState(data', STAGE1_STATE_KEY) = Cursor1(idx, bIdx + 1)
                  /\ lastCall'.updates = Cursor1(idx, bIdx + 1)
          /\ Goes("s1_block", "s1_entry")
               => /\ bIdx = Len(blocks)
                  /\ GetStageState(data', STAGE1_STATE_KEY) = Cursor1(idx + 1, 0)
                  /\ lastCall'.updates = Cursor1(idx + 1, 0)
          /\ Goes("main_stage1", "s1_entry")
               => /\ <<idx', blockIndex'>> = PersistedUnit(STAGE1_STATE_KEY)
                  /\ entryIndex' = idx'
          /\ Goes("s1_entry", "s1_block")
               => /\ idx' = idx
                  /\ bIdx' = IF idx = PersistedUnit(STAGE1_STATE_KEY)[1]
                              THEN PersistedUnit(STAGE1_STATE_KEY)[2] ELSE 0]_vars

\* A run resumed at the second block of the first entry has saved that
\* block: state.json holds {entry_index: 0, block_index: 2}.
C21_Witness ==
    /\ At("s1_block")
    /\ world = "dup"
    /\ entryIndex = 0
    /\ blockIndex = 1
    /\ idx = 0
    /\ bIdx = 2
    /\ Persisted(STAGE1_STATE_KEY) = Cursor1(0, 2)
    /\ Len(s1File.rows) >= 3

\* The loop of stage 2 or 3 ends after its last row, no row having raised.
RowsFinished ==
    /\ running
    /\ pc \in {"s2_row", "s3_row"}
    /\ idx >= Len(dataframe.rows)
    /\ pc' # pc
    /\ crashes' = crashes

Completed(stage) ==
    CASE stage = STAGE1_STATE_KEY ->
            /\ At("main_stage1") /\ argStage \in {"1", "all"} /\ epFile
            /\ CursorField(GetStageState(data, stage), "entry_index") = Len(entry_points)
      [] stage = STAGE2_STATE_KEY ->
            /\ At("main_stage2") /\ argStage \in {"2", "all"} /\ s1File.kind = "xlsx"
            /\ CursorField(GetStageState(data, stage), "row_index") = Len(s1File.rows)
      [] OTHER ->
            /\ At("main_stage3") /\ argStage \in {"3", "all"} /\ s2File.kind = "xlsx"
            /\ CursorField(GetStageState(data, stage), "row_index") = Len(s2File.rows)

\* The loop of a stage is at the end of its work list.
AtEnd ==
    \/ At("s1_entry") /\ idx >= Len(entry_points)
    \/ (At("s2_row") \/ At("s3_row")) /\ idx >= Len(dataframe.rows)

\* No file and nothing of the store changes, nothing is fetched or extracted.
NothingDone ==
    /\ UNCHANGED <<tableVars, stateFile, tmpFile, lastCall, failures, s3Result, halt>>
    /\ running' => data' = data

\* C23: a stage invoked with its cursor at the end of its work list does
\* nothing: its loop starts at the end and is left at once, without a fetch
\* or an extraction, and the table files and the progress store stay as
\* they are.
C23_CompletedStageIsNoOp ==
    [][/\ (Completed(STAGE1_STATE_KEY) /\ crashes' = crashes)
            => pc' = "s1_entry" /\ idx' = Len(entry_points) /\ NothingDone
       /\ (Completed(STAGE2_STATE_KEY) /\ crashes' = crashes)
            => pc' = "s2_row" /\ idx' = Len(dataframe'.rows) /\ NothingDone
       /\ (Completed(STAGE3_STATE_KEY) /\ crashes' = crashes)
            => pc' = "s3_row" /\ idx' = Len(dataframe'.rows) /\ NothingDone
       /\ (AtEnd /\ crashes' = crashes)
            => /\ pc' = (CASE pc = "s1_entry" -> "main_stage2"
                           [] pc = "s2_row" -> "main_stage3"
                           [] OTHER -> "off")
               /\ NothingDone]_vars

\* cli.main --stage all on a finished pipeline: stage 3 starts at the end
\* of its two rows, as stages 1 and 2 did, and every file is as one pass
\* left it.
C23_Witness ==
    /\ At("s3_row")
    /\ argStage = "all"
    /\ world = "clean"
    /\ entryIndex = 2
    /\ idx = 2
    /\ Len(dataframe.rows) = 2
    /\ PersistedUnit(STAGE1_STATE_KEY) = <<2, 0>>
    /\ PersistedUnit(STAGE2_STATE_KEY) = <<2, 0>>
    /\ s1File = OnePassTable
    /\ s3File.kind = "xlsx"

\* run_stage1 has returned to cli.main and no hard failure stopped its loop.
Stage1RanThrough ==
    /\ At("main_stage2")
    /\ argStage \in {"1", "all"}
    /\ halt.stage # STAGE1_STATE_KEY

\* C24: when stage 1 has run through without a hard failure, whatever the
\* pages held, stage1_results.xlsx exists, and run_stage2 called next does
\* not raise for a missing stage 1 table.
C24_TableExistsAfterStage1 ==
    /\ [](Stage1RanThrough => s1File.kind = "xlsx")
    /\ [][Stage1RanThrough => raised' # NoStage1Results]_vars

====
